---- MODULE Spec2Model ----
(***************************************************************************)
(* learn-go: the request path of the HTTP service.                         *)
(*                                                                         *)
(*   net/http server -> gorilla/mux Router.ServeHTTP (route match)         *)
(*     -> Logging -> CORS -> SecurityHeaders -> Metrics -> otelhttp        *)
(*     -> Index | Ping | Healthz | Info | Version | Echo | Metrics         *)
(*                                                                         *)
(* Every connection serves one request; the steps of different requests    *)
(* interleave freely, as goroutines of net/http do.                        *)
(*                                                                         *)
(* Around it, the process: func main -> InitTracer -> NewServer ->         *)
(* NewRouter -> NewHandlers -> Server.Start -> ListenAndServe, up to the   *)
(* exit of the process; and the handlers and the middleware called by      *)
(* themselves, as the package tests call them.                             *)
(***************************************************************************)
EXTENDS Integers, Sequences, FiniteSets, Bags, TLC

VARIABLES
    main,               \* func main: its position, what it built, its log, its exit
    env,                \* the process environment (os.Getenv)
    h,                  \* the *Handlers built by NewHandlers: appInfo, startTime
    now,                \* the clock read by time.Now / time.Since
    conn,               \* per connection: the request, its position, its writer
    HTTPRequestsTotal,  \* prometheus counter vector, labels (method, endpoint, status)
    HTTPRequestDuration \* prometheus histogram vector, labels (method, endpoint)

vars == <<main, env, h, now, conn, HTTPRequestsTotal, HTTPRequestDuration>>

----------------------------------------------------------------------------
(* Bounds of the model *)

\* The clock runs from 1 (process start) to MaxTime.
MaxTime == 2

\* A request body is a sequence of at most MaxBody JSON tokens.
MaxBody == 3

\* Two connections are served concurrently.
Conns == {"c1", "c2"}

----------------------------------------------------------------------------
(* Maps (Go map[string]T, http.Header) as functions with a finite domain *)

EmptyMap == [x \in {} |-> ""]

MapSet(m, k, v) == [x \in (DOMAIN m) \cup {k} |-> IF x = k THEN v ELSE m[x]]

MapGet(m, k) == IF k \in DOMAIN m THEN m[k] ELSE ""

----------------------------------------------------------------------------
(* encoding/json on a token alphabet                                       *)
(*   "1" and "1.0" are two spellings of the float64 1; "1e400" is a valid  *)
(*   JSON number that does not fit a float64; "x" is text that is no JSON. *)

Tokens == {"[", "]", ",", "null", "1", "1.0", "1e400", "x"}

Bodies == UNION {[1..n -> Tokens] : n \in 0..MaxBody}

JNull == [t |-> "null", n |-> 0, a |-> <<>>]
JNum(k) == [t |-> "num", n |-> k, a |-> <<>>]
JArr(s) == [t |-> "arr", n |-> 0, a |-> s]

\* The result of scanning one value: ok = a complete value was read,
\* bad = a number in it does not convert (UnmarshalTypeError), val = the
\* value as interface{}, rest = the input after the value (left unread).
ParseFail == [ok |-> FALSE, bad |-> FALSE, val |-> JNull, rest |-> <<>>]

RECURSIVE ParseValue(_)
RECURSIVE ParseElems(_, _, _)

ParseElems(toks, acc, bad) ==
    LET p == ParseValue(toks) IN
    IF ~p.ok THEN ParseFail
    ELSE IF p.rest = <<>> THEN ParseFail
    ELSE IF Head(p.rest) = "]"
         THEN [ok |-> TRUE, bad |-> bad \/ p.bad,
               val |-> JArr(Append(acc, p.val)), rest |-> Tail(p.rest)]
    ELSE IF Head(p.rest) = ","
         THEN ParseElems(Tail(p.rest), Append(acc, p.val), bad \/ p.bad)
    ELSE ParseFail

ParseValue(toks) ==
    IF toks = <<>> THEN ParseFail
    ELSE LET c == Head(toks)  r == Tail(toks) IN
         CASE c = "null"  -> [ok |-> TRUE, bad |-> FALSE, val |-> JNull, rest |-> r]
           [] c = "1"     -> [ok |-> TRUE, bad |-> FALSE, val |-> JNum(1), rest |-> r]
           [] c = "1.0"   -> [ok |-> TRUE, bad |-> FALSE, val |-> JNum(1), rest |-> r]
           [] c = "1e400" -> [ok |-> TRUE, bad |-> TRUE, val |-> JNull, rest |-> r]
           [] c = "["     -> IF r # <<>> /\ Head(r) = "]"
                             THEN [ok |-> TRUE, bad |-> FALSE,
                                   val |-> JArr(<<>>), rest |-> Tail(r)]
                             ELSE ParseElems(r, <<>>, FALSE)
           [] OTHER       -> ParseFail

\* json.NewDecoder(r.Body).Decode(&data): reads the first value of the
\* stream and stops there; what follows the value is not looked at.
Decode(body) ==
    LET p == ParseValue(body) IN
    [err |-> ~p.ok \/ p.bad, data |-> IF p.ok /\ ~p.bad THEN p.val ELSE JNull]

RECURSIVE Encode(_)
RECURSIVE EncodeElems(_)

EncodeElems(s) ==
    IF s = <<>> THEN <<>>
    ELSE IF Len(s) = 1 THEN Encode(s[1])
    ELSE Encode(s[1]) \o <<",">> \o EncodeElems(Tail(s))

\* json.NewEncoder(w).Encode of an interface{} value.
Encode(v) ==
    CASE v.t = "null" -> <<"null">>
      [] v.t = "num"  -> <<"1">>
      [] v.t = "arr"  -> <<"[">> \o EncodeElems(v.a) \o <<"]">>

\* A body that is one JSON document and nothing else (json.Valid).
ValidJSON(body) ==
    LET p == ParseValue(body) IN p.ok /\ p.rest = <<>>

----------------------------------------------------------------------------
(* The process environment *)

\* The configurations the process is started with: nothing set, the test
\* profile, and a deployment with every variable set.
EnvConfigs ==
    { [GO_ENV |-> "", APP_VERSION |-> "", CORS_ORIGIN |-> "", PORT |-> "", HOST |-> "",
       OTEL_EXPORTER_OTLP_ENDPOINT |-> ""],
      [GO_ENV |-> "test", APP_VERSION |-> "", CORS_ORIGIN |-> "", PORT |-> "8080", HOST |-> "",
       OTEL_EXPORTER_OTLP_ENDPOINT |-> ""],
      [GO_ENV |-> "production", APP_VERSION |-> "1.2.3",
       CORS_ORIGIN |-> "https://app.example", PORT |-> "9090", HOST |-> "0.0.0.0",
       OTEL_EXPORTER_OTLP_ENDPOINT |-> "collector:4317"] }

\* time.Now().UTC().Format(time.RFC3339)
RFC3339(t) == [layout |-> "RFC3339", zone |-> "UTC", sec |-> t]

\* NewHandlers: reads APP_VERSION and GO_ENV once, with their defaults, and
\* records the start time.
NewHandlers(e, t) ==
    [appInfo |-> [name |-> "learn-go",
                  version |-> IF e.APP_VERSION = "" THEN "0.0.1" ELSE e.APP_VERSION,
                  environment |-> IF e.GO_ENV = "" THEN "development" ELSE e.GO_ENV,
                  timestamp |-> RFC3339(t)],
     startTime |-> t]

----------------------------------------------------------------------------
(* The router: NewRouter *)

\* The chain with CORS installed before Logging.
MiddlewaresCORSFirst == <<"CORS", "Logging", "SecurityHeaders", "Metrics", "Otel">>

\* r.Use(...) in the order of the calls; mux wraps so that the first one
\* used is the outermost.
Middlewares == <<"Logging", "CORS", "SecurityHeaders", "Metrics", "Otel">>

\* r.HandleFunc(path, handler).Methods(method), in the order of the calls.
Routes ==
    << [path |-> "/",        method |-> "GET",  handler |-> "Index"],
       [path |-> "/ping",    method |-> "GET",  handler |-> "Ping"],
       [path |-> "/healthz", method |-> "GET",  handler |-> "Healthz"],
       [path |-> "/info",    method |-> "GET",  handler |-> "Info"],
       [path |-> "/version", method |-> "GET",  handler |-> "Version"],
       [path |-> "/echo",    method |-> "POST", handler |-> "Echo"],
       [path |-> "/metrics", method |-> "GET",  handler |-> "MetricsHandler"] >>

\* Routes registered without .Methods(...): the path alone decides.
RouteMatchByPath(req) ==
    LET byPath == {i \in 1..Len(Routes) : Routes[i].path = req.path}
    IN  IF byPath # {}
        THEN [kind |-> "match", route |-> CHOOSE i \in byPath : \A j \in byPath : i <= j]
        ELSE [kind |-> "notFound", route |-> 0]

\* mux.Router.Match: the first route whose path and method both match; a
\* route whose path matches but whose method does not leaves
\* ErrMethodMismatch; no route at all leaves ErrNotFound.
RouteMatch(req) ==
    LET full == {i \in 1..Len(Routes) :
                    Routes[i].path = req.path /\ Routes[i].method = req.method}
        byPath == {i \in 1..Len(Routes) : Routes[i].path = req.path}
    IN  IF full # {}
        THEN [kind |-> "match", route |-> CHOOSE i \in full : \A j \in full : i <= j]
        ELSE IF byPath # {}
        THEN [kind |-> "methodMismatch", route |-> 0]
        ELSE [kind |-> "notFound", route |-> 0]

----------------------------------------------------------------------------
(* http.ResponseWriter *)

\* status = 0: the header has not been written. sent is the header map as
\* it was when the status line went out, which is what the client receives.
NewWriter == [hdr |-> EmptyMap, status |-> 0, sent |-> EmptyMap, body |-> <<>>]

\* w.WriteHeader(code): only the first call counts.
WriteHeader(w, code) ==
    IF w.status # 0 THEN w
    ELSE [w EXCEPT !.status = code, !.sent = w.hdr]

\* w.Write(b): writes the header with 200 first if it is not out yet.
Write(w, chunk) ==
    LET w1 == WriteHeader(w, 200) IN [w1 EXCEPT !.body = Append(@, chunk)]

\* http.Error(w, msg, code)
HttpError(w, msg, code) ==
    LET h1 == MapSet(MapSet(w.hdr, "Content-Type", "text/plain; charset=utf-8"),
                     "X-Content-Type-Options", "nosniff")
    IN  Write(WriteHeader([w EXCEPT !.hdr = h1], code), [kind |-> "text", text |-> msg])

----------------------------------------------------------------------------
(* Requests *)

NoReq == [method |-> "", path |-> "", body |-> <<>>, header |-> EmptyMap]

Methods == {"GET", "POST", "OPTIONS"}

Paths == {"/", "/ping", "/healthz", "/info", "/version", "/echo", "/metrics", "/nope"}

\* http.Header: name -> list of values.
ReqHeaders == {EmptyMap, [x \in {"User-Agent"} |-> <<"curl/8", "probe">>]}

\* r.Header.Get(k): the first value, "" when there is none.
HeaderGet(hd, k) == IF k \in DOMAIN hd /\ hd[k] # <<>> THEN hd[k][1] ELSE ""

\* The bodies sent to the concurrent server.
ServerBodies == {<<>>, <<"[", "1.0", "]">>, <<"x">>, <<"null", "x">>}

\* Only /echo reads the body, so only requests to /echo are given one.
ServerRequests ==
    {q \in [method : Methods, path : Paths, body : ServerBodies, header : ReqHeaders] :
        q.body # <<>> => q.path = "/echo"}

\* What gopsutil returned to one handler call.  A failed call returns a nil
\* pointer (nil = TRUE) or an empty sample; process.NewProcess returns a
\* usable handle even with an error, and a process that is not there has
\* no memory information.
NoSample ==
    [procErr |-> FALSE,
     memInfo |-> [nil |-> TRUE, rss |-> 0, vms |-> 0],
     virtualMem |-> [nil |-> TRUE, total |-> 0, available |-> 0, used |-> 0],
     cpuPercent |-> <<>>, cpuCount |-> 0]

MemInfoOutcomes ==
    {[nil |-> TRUE, rss |-> 0, vms |-> 0], [nil |-> FALSE, rss |-> 50, vms |-> 70]}

VirtualMemOutcomes ==
    {[nil |-> TRUE, total |-> 0, available |-> 0, used |-> 0],
     [nil |-> FALSE, total |-> 0, available |-> 0, used |-> 0],
     [nil |-> FALSE, total |-> 200, available |-> 120, used |-> 80]}

HealthzSamples ==
    {s \in [procErr : BOOLEAN, memInfo : MemInfoOutcomes, virtualMem : VirtualMemOutcomes,
            cpuPercent : {<<>>}, cpuCount : {0}] :
        s.procErr => s.memInfo.nil}

InfoSamples ==
    {s \in [procErr : BOOLEAN, memInfo : MemInfoOutcomes, virtualMem : VirtualMemOutcomes,
            cpuPercent : {<<>>, <<7>>}, cpuCount : {0, 4}] :
        s.procErr => s.memInfo.nil}

----------------------------------------------------------------------------
(* The state of one connection *)

\* pc: idle -> accepted -> chain -> handler -> (record ->) done, or panicked.
\* ops is the sequence of writer calls of a handler given from outside.
\* trace lists the middleware and the handler entered, in order; log holds
\* the access-log entries written for this request; after is the set of
\* connections whose request had ended when this one arrived.
Idle ==
    [pc |-> "idle", req |-> NoReq, chain |-> <<>>, idx |-> 0, handler |-> "",
     route |-> "", trace |-> <<>>, w |-> NewWriter, wrapped |-> FALSE,
     statusCode |-> 0, start |-> 0, log |-> <<>>, sample |-> NoSample, after |-> {},
     ops |-> <<>>]

Ended(r) == r.pc \in {"done", "panicked"}

Enter(r, name) == [r EXCEPT !.trace = Append(@, name)]

\* next.ServeHTTP(w, r): the next middleware of the chain, or the handler.
CallNext(r) ==
    IF r.idx < Len(r.chain) THEN [r EXCEPT !.idx = @ + 1]
    ELSE [r EXCEPT !.pc = "handler"]

\* A return up the chain: only MetricsMiddleware has code after its call
\* of next, and it runs if the request went through its wrapping branch.
Return(r) == [r EXCEPT !.pc = IF r.wrapped THEN "record" ELSE "done"]

\* A runtime panic: nothing above recovers until net/http's conn.serve,
\* which logs it and closes the connection; no response is written.
Panic(r) == [r EXCEPT !.pc = "panicked"]

HSetHeader(r, k, v) == [r EXCEPT !.w.hdr = MapSet(@, k, v)]

\* responseWriter.WriteHeader: records the code, then the embedded writer's.
HWriteHeader(r, code) ==
    [r EXCEPT !.w = WriteHeader(@, code),
              !.statusCode = IF r.wrapped THEN code ELSE @]

\* Write is promoted from the embedded writer: the wrapper does not see it.
HWrite(r, chunk) == [r EXCEPT !.w = Write(@, chunk)]

----------------------------------------------------------------------------
(* The middleware: each is the http.HandlerFunc it returns, as a function  *)
(* of the connection state r, the environment e and the clock t.           *)

\* LoggingMiddleware without the GO_ENV switch.
LoggingFuncAlways(r, e, t) ==
    LET ua == HeaderGet(r.req.header, "User-Agent")
        entry == [timestamp |-> RFC3339(t), method |-> r.req.method,
                  path |-> r.req.path,
                  userAgent |-> IF ua = "" THEN "Unknown" ELSE ua]
    IN  CallNext([Enter(r, "Logging") EXCEPT !.log = Append(@, entry)])

\* LoggingMiddleware: one entry unless GO_ENV is "test", then next.
LoggingFunc(r, e, t) ==
    LET ua == HeaderGet(r.req.header, "User-Agent")
        entry == [timestamp |-> RFC3339(t), method |-> r.req.method,
                  path |-> r.req.path,
                  userAgent |-> IF ua = "" THEN "Unknown" ELSE ua]
        r1 == Enter(r, "Logging")
        r2 == IF e.GO_ENV # "test" THEN [r1 EXCEPT !.log = Append(@, entry)] ELSE r1
    IN  CallNext(r2)

\* CORSMiddleware without the return of its OPTIONS branch.
CORSFuncFallsThrough(r, e) ==
    LET origin == IF e.CORS_ORIGIN = "" THEN "*" ELSE e.CORS_ORIGIN
        r1 == HSetHeader(Enter(r, "CORS"), "Access-Control-Allow-Origin", origin)
        r2 == HSetHeader(r1, "Access-Control-Allow-Methods",
                         "GET, POST, PUT, DELETE, OPTIONS")
        r3 == HSetHeader(r2, "Access-Control-Allow-Headers",
                         "Content-Type, Authorization")
    IN  IF r.req.method = "OPTIONS"
        THEN CallNext(HWriteHeader(r3, 200))
        ELSE CallNext(r3)

\* CORSMiddleware: three headers; an OPTIONS request is answered 200 here
\* and next is not called.
CORSFunc(r, e) ==
    LET origin == IF e.CORS_ORIGIN = "" THEN "*" ELSE e.CORS_ORIGIN
        r1 == HSetHeader(Enter(r, "CORS"), "Access-Control-Allow-Origin", origin)
        r2 == HSetHeader(r1, "Access-Control-Allow-Methods",
                         "GET, POST, PUT, DELETE, OPTIONS")
        r3 == HSetHeader(r2, "Access-Control-Allow-Headers",
                         "Content-Type, Authorization")
    IN  IF r.req.method = "OPTIONS"
        THEN Return(HWriteHeader(r3, 200))
        ELSE CallNext(r3)

SecurityHeaders ==
    << <<"X-Content-Type-Options", "nosniff">>,
       <<"X-Frame-Options", "DENY">>,
       <<"X-XSS-Protection", "1; mode=block">>,
       <<"Referrer-Policy", "strict-origin-when-cross-origin">>,
       <<"Content-Security-Policy", "default-src 'self'">> >>

\* SecurityHeadersMiddleware: five headers, then next.
SecurityHeadersFunc(r) ==
    LET set[i \in 0..Len(SecurityHeaders)] ==
            IF i = 0 THEN Enter(r, "SecurityHeaders")
            ELSE HSetHeader(set[i - 1], SecurityHeaders[i][1], SecurityHeaders[i][2])
    IN  CallNext(set[Len(SecurityHeaders)])

\* MetricsMiddleware building its responseWriter without the 200 default.
MetricsFuncNoDefault(r, t) ==
    LET r1 == Enter(r, "Metrics") IN
    IF r.req.path = "/metrics"
    THEN CallNext(r1)
    ELSE CallNext([r1 EXCEPT !.wrapped = TRUE, !.start = t])

\* MetricsMiddleware measuring the scrape endpoint like any other.
MetricsFuncMeasuresAll(r, t) ==
    CallNext([Enter(r, "Metrics") EXCEPT !.wrapped = TRUE, !.statusCode = 200,
                                         !.start = t])

\* MetricsMiddleware, up to its call of next: /metrics passes through; any
\* other request gets a responseWriter with statusCode 200 and a start time.
MetricsFunc(r, t) ==
    LET r1 == Enter(r, "Metrics") IN
    IF r.req.path = "/metrics"
    THEN CallNext(r1)
    ELSE CallNext([r1 EXCEPT !.wrapped = TRUE, !.statusCode = 200, !.start = t])

\* otelhttp.NewHandler(next, "http-server"): a span around next.
OtelFunc(r) == CallNext(Enter(r, "Otel"))

\* MetricsMiddleware after next returned: the labels of the two records.
MetricsPath(r) == IF r.route # "" THEN r.route ELSE r.req.path

DurationLabels(r) == <<r.req.method, MetricsPath(r)>>

TotalLabels(r) == <<r.req.method, MetricsPath(r), r.statusCode>>

----------------------------------------------------------------------------
(* The handlers: each returns the connection state after the call and the  *)
(* Handlers value it leaves behind its pointer receiver.                   *)

JSONResponse(data, t) ==
    [kind |-> "Response", success |-> TRUE, data |-> data, timestamp |-> RFC3339(t)]

\* w.Header().Set("Content-Type", ...); json.NewEncoder(w).Encode(response)
WriteJSON(r, response) ==
    Return(HWrite(HSetHeader(r, "Content-Type", "application/json"), response))

Endpoints ==
    << <<"/", "GET">>, <<"/ping", "GET">>, <<"/healthz", "GET">>, <<"/info", "GET">>,
       <<"/version", "GET">>, <<"/echo", "POST">>, <<"/openapi.json", "GET">>,
       <<"/openapi.yaml", "GET">>, <<"/metrics", "GET">> >>

IndexFunc(hh, r, t) ==
    [h |-> hh,
     r |-> WriteJSON(Enter(r, "Index"),
                     JSONResponse([message |-> "Welcome to learn-go API",
                                   endpoints |-> Endpoints], t))]

\* Ping leaving the Content-Type to net/http, which sniffs it from the body.
PingFuncSniffed(hh, r) ==
    [h |-> hh,
     r |-> Return(HWrite(HWriteHeader(HSetHeader(Enter(r, "Ping"), "Content-Type",
                                                 "text/plain; charset=utf-8"), 200),
                         [kind |-> "text", text |-> "pong"]))]

PingFunc(hh, r) ==
    [h |-> hh,
     r |-> Return(HWrite(HWriteHeader(HSetHeader(Enter(r, "Ping"),
                                                 "Content-Type", "text/plain"), 200),
                         [kind |-> "text", text |-> "pong"]))]

\* memInfo.RSS * 100 / virtualMem.Total on uint64: a nil pointer or a zero
\* divisor is a runtime panic.  (rss * 100 stays far below 2^64.)
MemoryFaults(s) == s.memInfo.nil \/ s.virtualMem.nil \/ s.virtualMem.total = 0

MemoryInfo(s) ==
    [rss |-> s.memInfo.rss, vms |-> s.memInfo.vms,
     percent |-> (s.memInfo.rss * 100) \div s.virtualMem.total,
     available |-> s.virtualMem.available, total |-> s.virtualMem.total,
     used |-> s.virtualMem.used]

HealthzFunc(hh, r, t, s) ==
    LET r1 == [Enter(r, "Healthz") EXCEPT !.sample = s] IN
    [h |-> hh,
     r |-> IF MemoryFaults(s) THEN Panic(r1)
           ELSE WriteJSON(r1, JSONResponse(
                    [status |-> "healthy", uptime |-> t - hh.startTime,
                     timestamp |-> RFC3339(t), memory |-> MemoryInfo(s),
                     version |-> hh.appInfo.version,
                     environment |-> hh.appInfo.environment], t))]

\* Info refreshing the application timestamp before it reports it.
InfoFuncRefreshes(hh, r, e, t, s) ==
    LET r1 == [Enter(r, "Info") EXCEPT !.sample = s]
        h1 == [hh EXCEPT !.appInfo.timestamp = RFC3339(t)]
    IN
    [h |-> h1,
     r |-> IF MemoryFaults(s) \/ s.cpuPercent = <<>> THEN Panic(r1)
           ELSE WriteJSON(r1, JSONResponse(
                    [application |-> h1.appInfo,
                     system |-> [uptime |-> t - hh.startTime, memory |-> MemoryInfo(s),
                                 cpu |-> [count |-> s.cpuCount,
                                          percent |-> s.cpuPercent[1]]],
                     environment |-> [go_env |-> e.GO_ENV, port |-> e.PORT,
                                      host |-> e.HOST]], t))]

InfoFunc(hh, r, e, t, s) ==
    LET r1 == [Enter(r, "Info") EXCEPT !.sample = s] IN
    [h |-> hh,
     r |-> IF MemoryFaults(s) \/ s.cpuPercent = <<>> THEN Panic(r1)
           ELSE WriteJSON(r1, JSONResponse(
                    [application |-> hh.appInfo,
                     system |-> [uptime |-> t - hh.startTime, memory |-> MemoryInfo(s),
                                 cpu |-> [count |-> s.cpuCount,
                                          percent |-> s.cpuPercent[1]]],
                     environment |-> [go_env |-> e.GO_ENV, port |-> e.PORT,
                                      host |-> e.HOST]], t))]

\* Version reading APP_VERSION and GO_ENV when the request comes in.
VersionFuncReadsEnv(hh, r, t) ==
    [h |-> hh,
     r |-> WriteJSON(Enter(r, "Version"),
                     JSONResponse(
                         [version |-> IF env.APP_VERSION = "" THEN "0.0.1"
                                      ELSE env.APP_VERSION,
                          name |-> hh.appInfo.name,
                          environment |-> IF env.GO_ENV = "" THEN "development"
                                          ELSE env.GO_ENV], t))]

VersionFunc(hh, r, t) ==
    [h |-> hh,
     r |-> WriteJSON(Enter(r, "Version"),
                     JSONResponse([version |-> hh.appInfo.version,
                                   name |-> hh.appInfo.name,
                                   environment |-> hh.appInfo.environment], t))]

\* Echo reporting the last value of a header instead of the first.
EchoHeadersLast(hd) ==
    [k \in {x \in DOMAIN hd : Len(hd[x]) > 0} |-> hd[k][Len(hd[k])]]

\* The first value of every header that has one.
EchoHeaders(hd) ==
    [k \in {x \in DOMAIN hd : Len(hd[x]) > 0} |-> hd[k][1]]

\* Echo reflecting the raw body instead of the decoded value.
EchoFuncRaw(hh, r, t) ==
    [h |-> hh,
     r |-> IF Decode(r.req.body).err
           THEN Return(HWrite(HWriteHeader(
                    HSetHeader(Enter(r, "Echo"), "Content-Type", "application/json"), 400),
                    [kind |-> "ErrorResponse", error |-> TRUE,
                     message |-> "Invalid JSON", statusCode |-> 400,
                     timestamp |-> RFC3339(t)]))
           ELSE WriteJSON(Enter(r, "Echo"), JSONResponse(
                    [echo |-> r.req.body, headers |-> EchoHeaders(r.req.header),
                     method |-> r.req.method], t))]

\* Echo writing its error body without the call of WriteHeader.
EchoFuncNoStatus(hh, r, t) ==
    [h |-> hh,
     r |-> IF Decode(r.req.body).err
           THEN Return(HWrite(
                    HSetHeader(Enter(r, "Echo"), "Content-Type", "application/json"),
                    [kind |-> "ErrorResponse", error |-> TRUE,
                     message |-> "Invalid JSON", statusCode |-> 400,
                     timestamp |-> RFC3339(t)]))
           ELSE WriteJSON(Enter(r, "Echo"), JSONResponse(
                    [echo |-> Encode(Decode(r.req.body).data),
                     headers |-> EchoHeaders(r.req.header),
                     method |-> r.req.method], t))]

\* Echo setting the Content-Type of its error after the status line.
EchoFuncLateContentType(hh, r, t) ==
    [h |-> hh,
     r |-> IF Decode(r.req.body).err
           THEN Return(HWrite(HSetHeader(HWriteHeader(Enter(r, "Echo"), 400),
                                         "Content-Type", "application/json"),
                    [kind |-> "ErrorResponse", error |-> TRUE,
                     message |-> "Invalid JSON", statusCode |-> 400,
                     timestamp |-> RFC3339(t)]))
           ELSE WriteJSON(Enter(r, "Echo"), JSONResponse(
                    [echo |-> Encode(Decode(r.req.body).data),
                     headers |-> EchoHeaders(r.req.header),
                     method |-> r.req.method], t))]

EchoFunc(hh, r, t) ==
    LET d == Decode(r.req.body)
        r1 == Enter(r, "Echo")
    IN  [h |-> hh,
         r |-> IF d.err
               THEN Return(HWrite(HWriteHeader(
                        HSetHeader(r1, "Content-Type", "application/json"), 400),
                        [kind |-> "ErrorResponse", error |-> TRUE,
                         message |-> "Invalid JSON", statusCode |-> 400,
                         timestamp |-> RFC3339(t)]))
               ELSE WriteJSON(r1, JSONResponse(
                        [echo |-> Encode(d.data),
                         headers |-> EchoHeaders(r.req.header),
                         method |-> r.req.method], t))]

\* promhttp.Handler(): the exposition of the registry, status 200.
MetricsHandlerFunc(hh, r, total, duration) ==
    [h |-> hh,
     r |-> Return(HWrite(HSetHeader(Enter(r, "MetricsHandler"), "Content-Type",
                                    "text/plain; version=0.0.4; charset=utf-8"),
                         [kind |-> "exposition", total |-> total,
                          duration |-> duration]))]

\* What becomes of the embedded OpenAPI document in OpenAPISpec: it is
\* converted, yaml.Unmarshal rejects it, or json.Marshal rejects what
\* yaml.Unmarshal built.
OpenAPIOutcomes == {"ok", "yamlError", "jsonError"}

\* http.Error called by a handler: through the writer the handler was given.
HHttpError(r, msg, code) ==
    HWrite(HWriteHeader(HSetHeader(HSetHeader(r, "Content-Type",
                                              "text/plain; charset=utf-8"),
                                   "X-Content-Type-Options", "nosniff"), code),
           [kind |-> "text", text |-> msg])

\* OpenAPISpec: the document as JSON, written as it is.
OpenAPISpecFunc(hh, r, outcome) ==
    LET r1 == Enter(r, "OpenAPISpec") IN
    [h |-> hh,
     r |-> CASE outcome = "yamlError" ->
                  Return(HHttpError(r1, "Failed to parse OpenAPI spec", 500))
             [] outcome = "jsonError" ->
                  Return(HHttpError(r1, "Failed to convert OpenAPI spec to JSON", 500))
             [] OTHER ->
                  Return(HWrite(HSetHeader(r1, "Content-Type", "application/json"),
                                [kind |-> "document", format |-> "json"]))]

\* OpenAPISpecYAML: the embedded bytes.
OpenAPISpecYAMLFunc(hh, r) ==
    [h |-> hh,
     r |-> Return(HWrite(HSetHeader(Enter(r, "OpenAPISpecYAML"),
                                    "Content-Type", "application/x-yaml"),
                         [kind |-> "document", format |-> "yaml"]))]

\* The handler the middleware tests wrap: w.WriteHeader(http.StatusOK).
StubFunc(hh, r) == [h |-> hh, r |-> Return(HWriteHeader(Enter(r, "Stub"), 200))]

\* An http.Handler given to a middleware from outside, as the sequence of
\* calls it makes on its writer after setting a Content-Type: a positive
\* number is WriteHeader with that code, 0 is Write.
HandlerPrograms == {<<201>>, <<0>>, <<404, 0>>, <<0, 500>>, <<200, 500>>}

RECURSIVE RunOps(_, _)

RunOps(r, ops) ==
    IF ops = <<>> THEN r
    ELSE RunOps(IF Head(ops) = 0 THEN HWrite(r, [kind |-> "text", text |-> "body"])
                ELSE HWriteHeader(r, Head(ops)),
                Tail(ops))

AnyHandlerFunc(hh, r) ==
    [h |-> hh,
     r |-> Return(RunOps(HSetHeader(Enter(r, "Any"), "Content-Type", "text/plain"),
                         r.ops))]

----------------------------------------------------------------------------
(* The process: func main, NewServer, NewRouter, Server.Start              *)

NoEnv ==
    [GO_ENV |-> "", APP_VERSION |-> "", CORS_ORIGIN |-> "", PORT |-> "", HOST |-> "",
     OTEL_EXPORTER_OTLP_ENDPOINT |-> ""]

\* The Handlers before NewHandlers has run.
NoHandlers ==
    [appInfo |-> [name |-> "", version |-> "", environment |-> "",
                  timestamp |-> RFC3339(0)],
     startTime |-> 0]

\* The error NewHandlers returns: nil on its only return statement.
NewHandlersErr(e, t) == FALSE

NoMux == [middlewares |-> <<>>, routes |-> <<>>]

NoRouter == [err |-> TRUE, nil |-> TRUE, mux |-> NoMux, h |-> NoHandlers]

\* NewRouter failing on an environment without APP_VERSION.
NewRouterNeedsVersion(e, t) ==
    IF NewHandlersErr(e, t) \/ e.APP_VERSION = "" THEN NoRouter
    ELSE [err |-> FALSE, nil |-> FALSE,
          mux |-> [middlewares |-> Middlewares, routes |-> Routes],
          h |-> NewHandlers(e, t)]

\* NewRouter: the handlers, then the middleware, then the routes; the error
\* of NewHandlers is returned with a nil router.
NewRouter(e, t) ==
    IF NewHandlersErr(e, t) THEN NoRouter
    ELSE [err |-> FALSE, nil |-> FALSE,
          mux |-> [middlewares |-> Middlewares, routes |-> Routes],
          h |-> NewHandlers(e, t)]

NoServer == [err |-> TRUE, nil |-> TRUE, router |-> NoRouter]

\* NewServer: the error of NewRouter is returned with a nil server.
NewServer(e, t) ==
    LET r == NewRouter(e, t) IN
    IF r.err THEN NoServer
    ELSE [err |-> FALSE, nil |-> FALSE, router |-> r]

\* func main at its first statement.  pc names the call made next; calls
\* lists the calls made so far; err is what ListenAndServe returned and
\* result what Start returned (both "" for nil); exit is -1 while the
\* process runs; shutdown tells whether the tracer's shutdown function ran.
MainEntry ==
    [pc |-> "InitTracer", calls |-> <<>>, tracer |-> "", deferred |-> FALSE,
     shutdown |-> FALSE, server |-> NoServer, envAtBuild |-> NoEnv,
     addr |-> [host |-> "", port |-> ""], listening |-> FALSE, err |-> "",
     returned |-> FALSE, result |-> "", exit |-> -1, log |-> <<>>]

Called(m, name) == [m EXCEPT !.calls = Append(@, name)]

Logf(m, msg, arg) == [m EXCEPT !.log = Append(@, [msg |-> msg, arg |-> arg])]

\* log.Fatalf: the entry, then os.Exit(1); deferred calls do not run.
Fatalf(m, msg, arg) == [Logf(m, msg, arg) EXCEPT !.exit = 1, !.pc = "exited"]

\* main going on to NewServer after a failed InitTracer.
InitTracerFuncIgnoresError(m, e, fails) ==
    LET m1 == Called(m, "InitTracer") IN
    IF e.OTEL_EXPORTER_OTLP_ENDPOINT = ""
    THEN [Logf(m1, "OpenTelemetry tracing disabled", "")
             EXCEPT !.tracer = "noop", !.deferred = TRUE, !.pc = "NewServer"]
    ELSE IF fails
    THEN [Logf(m1, "Failed to initialize tracer", "exporter")
             EXCEPT !.tracer = "error", !.pc = "NewServer"]
    ELSE [Logf(m1, "OpenTelemetry tracing enabled", "")
             EXCEPT !.tracer = "otlp", !.deferred = TRUE, !.pc = "NewServer"]

\* main, InitTracer to defer shutdown(): without an endpoint tracing is off
\* and the shutdown function does nothing; with one, the exporter or the
\* resource may fail, and main then exits through log.Fatalf.
InitTracerFunc(m, e, fails) ==
    LET m1 == Called(m, "InitTracer") IN
    IF e.OTEL_EXPORTER_OTLP_ENDPOINT = ""
    THEN [Logf(m1, "OpenTelemetry tracing disabled", "")
             EXCEPT !.tracer = "noop", !.deferred = TRUE, !.pc = "NewServer"]
    ELSE IF fails
    THEN Fatalf([m1 EXCEPT !.tracer = "error"], "Failed to initialize tracer", "exporter")
    ELSE [Logf(m1, "OpenTelemetry tracing enabled", "")
             EXCEPT !.tracer = "otlp", !.deferred = TRUE, !.pc = "NewServer"]

\* main, NewServer to the startup information.
MainNewServerFunc(m, e, t) ==
    LET s == NewServer(e, t)
        m1 == [Called(m, "NewServer") EXCEPT !.server = s, !.envAtBuild = e]
        host == IF e.HOST = "" THEN "0.0.0.0" ELSE e.HOST
        port == IF e.PORT = "" THEN "8080" ELSE e.PORT
    IN  IF s.err THEN Fatalf(m1, "Failed to create server", "")
        ELSE [Logf(Logf(Logf(Logf(m1, "Server starting at", <<host, port>>),
                             "Environment", e.GO_ENV),
                        "Version", e.APP_VERSION),
                   "Started at", RFC3339(t))
                 EXCEPT !.addr = [host |-> host, port |-> port], !.pc = "Start"]

\* Server.Start up to its call of ListenAndServe.
StartFunc(m) ==
    [Logf(Called(m, "Start"), "Starting HTTP server on", m.addr)
        EXCEPT !.pc = "ListenAndServe"]

\* The errors of net.Listen and of a listener that stops accepting.
ListenErrors == {"listen tcp: address already in use"}

AcceptErrors == {"accept tcp: use of closed network connection"}

\* srv.ListenAndServe: net.Listen fails with bindErr, or the listener is up
\* and the call blocks in Serve.
ListenAndServeFunc(m, bindErr) ==
    LET m1 == Called(m, "ListenAndServe") IN
    IF bindErr = "" THEN [m1 EXCEPT !.listening = TRUE, !.pc = "serving"]
    ELSE [m1 EXCEPT !.err = bindErr, !.pc = "StartLog"]

\* Serve returns: Accept failed for good.  Nothing else ends it, since the
\* http.Server is local to Start and nobody can Close or Shutdown it.
ServeReturnsFunc(m, acceptErr) ==
    [m EXCEPT !.listening = FALSE, !.err = acceptErr, !.pc = "StartLog"]

\* Start returning the error without logging it.
StartLogFuncSilent(m) == [m EXCEPT !.pc = "StartReturn"]

\* Start: if err != nil { log.Printf("HTTP server error: %v", err) }
StartLogFunc(m) ==
    IF m.err # "" THEN [Logf(m, "HTTP server error", m.err) EXCEPT !.pc = "StartReturn"]
    ELSE [m EXCEPT !.pc = "StartReturn"]

\* Start: return err
StartReturnFunc(m) == [m EXCEPT !.returned = TRUE, !.result = m.err, !.pc = "MainExit"]

\* main after Start returned: log.Fatalf on an error; otherwise main
\* returns, its deferred shutdown runs and the process exits with 0.
MainExitFunc(m) ==
    IF m.result # "" THEN Fatalf(m, "Server failed to start", m.result)
    ELSE [m EXCEPT !.shutdown = m.deferred, !.exit = 0, !.pc = "exited"]

\* The process that came up: tracer in place, server built under e at time
\* t, listener bound.
Booted(e, t) ==
    ListenAndServeFunc(
        StartFunc(MainNewServerFunc(InitTracerFunc(MainEntry, e, FALSE), e, t)), "")

----------------------------------------------------------------------------
(* The state machine *)

\* The process has started: NewServer -> NewRouter -> NewHandlers has run at
\* time 1 under the environment the process was started with.
Init ==
    /\ env \in EnvConfigs
    /\ now = 1
    /\ main = Booted(env, now)
    /\ h = NewHandlers(env, now)
    /\ conn = [c \in Conns |-> Idle]
    /\ HTTPRequestsTotal = EmptyBag
    /\ HTTPRequestDuration = EmptyBag

Update(c, r) == conn' = [conn EXCEPT ![c] = r]

\* The listener accepts a connection and reads a request from it.
Accept(c, q) ==
    /\ main.listening
    /\ conn[c].pc = "idle"
    /\ Update(c, [Idle EXCEPT !.pc = "accepted", !.req = q,
                              !.after = {d \in Conns : Ended(conn[d])}])
    /\ UNCHANGED <<main, env, h, now, HTTPRequestsTotal, HTTPRequestDuration>>

\* mux.Router.ServeHTTP: a matched request enters the middleware chain; a
\* method mismatch is answered 405 and an unknown path 404 by the router's
\* own handlers, outside the chain.
ServeHTTPFunc(r) ==
    LET m == RouteMatch(r.req) IN
    CASE m.kind = "match" ->
            [r EXCEPT !.pc = "chain", !.chain = Middlewares, !.idx = 1,
                      !.handler = Routes[m.route].handler,
                      !.route = Routes[m.route].path]
      [] m.kind = "methodMismatch" ->
            [r EXCEPT !.pc = "done", !.w = WriteHeader(@, 405)]
      [] OTHER ->
            [r EXCEPT !.pc = "done", !.w = HttpError(@, "404 page not found", 404)]

ServeHTTP(c) ==
    /\ conn[c].pc = "accepted"
    /\ Update(c, ServeHTTPFunc(conn[c]))
    /\ UNCHANGED <<main, env, h, now, HTTPRequestsTotal, HTTPRequestDuration>>

AtMiddleware(c, name) ==
    /\ conn[c].pc = "chain"
    /\ conn[c].chain[conn[c].idx] = name

LoggingMiddleware(c) ==
    /\ AtMiddleware(c, "Logging")
    /\ Update(c, LoggingFunc(conn[c], env, now))
    /\ UNCHANGED <<main, env, h, now, HTTPRequestsTotal, HTTPRequestDuration>>

CORSMiddleware(c) ==
    /\ AtMiddleware(c, "CORS")
    /\ Update(c, CORSFunc(conn[c], env))
    /\ UNCHANGED <<main, env, h, now, HTTPRequestsTotal, HTTPRequestDuration>>

SecurityHeadersMiddleware(c) ==
    /\ AtMiddleware(c, "SecurityHeaders")
    /\ Update(c, SecurityHeadersFunc(conn[c]))
    /\ UNCHANGED <<main, env, h, now, HTTPRequestsTotal, HTTPRequestDuration>>

MetricsMiddleware(c) ==
    /\ AtMiddleware(c, "Metrics")
    /\ Update(c, MetricsFunc(conn[c], now))
    /\ UNCHANGED <<main, env, h, now, HTTPRequestsTotal, HTTPRequestDuration>>

OtelHandler(c) ==
    /\ AtMiddleware(c, "Otel")
    /\ Update(c, OtelFunc(conn[c]))
    /\ UNCHANGED <<main, env, h, now, HTTPRequestsTotal, HTTPRequestDuration>>

\* MetricsMiddleware after next.ServeHTTP(rw, r) returned.
MetricsRecord(c) ==
    /\ conn[c].pc = "record"
    /\ HTTPRequestDuration' = HTTPRequestDuration (+) SetToBag({DurationLabels(conn[c])})
    /\ HTTPRequestsTotal' = HTTPRequestsTotal (+) SetToBag({TotalLabels(conn[c])})
    /\ Update(c, [conn[c] EXCEPT !.pc = "done"])
    /\ UNCHANGED <<main, env, h, now>>

AtHandler(c, name) ==
    /\ conn[c].pc = "handler"
    /\ conn[c].handler = name

\* The handler ran: its connection and the Handlers it leaves.
Served(c, out) ==
    /\ Update(c, out.r)
    /\ h' = out.h
    /\ UNCHANGED <<main, env, now, HTTPRequestsTotal, HTTPRequestDuration>>

Index(c) == AtHandler(c, "Index") /\ Served(c, IndexFunc(h, conn[c], now))

Ping(c) == AtHandler(c, "Ping") /\ Served(c, PingFunc(h, conn[c]))

\* The handler calls gopsutil; S is the set of results it may get back.
Healthz(c, S) ==
    /\ AtHandler(c, "Healthz")
    /\ \E s \in S : Served(c, HealthzFunc(h, conn[c], now, s))

Info(c, S) ==
    /\ AtHandler(c, "Info")
    /\ \E s \in S : Served(c, InfoFunc(h, conn[c], env, now, s))

Version(c) == AtHandler(c, "Version") /\ Served(c, VersionFunc(h, conn[c], now))

Echo(c) == AtHandler(c, "Echo") /\ Served(c, EchoFunc(h, conn[c], now))

Metrics(c) ==
    /\ AtHandler(c, "MetricsHandler")
    /\ Served(c, MetricsHandlerFunc(h, conn[c], HTTPRequestsTotal, HTTPRequestDuration))

\* Time passes.
Tick ==
    /\ now < MaxTime
    /\ now' = now + 1
    /\ UNCHANGED <<main, env, h, conn, HTTPRequestsTotal, HTTPRequestDuration>>

OpenAPISpec(c) ==
    /\ AtHandler(c, "OpenAPISpec")
    /\ \E o \in OpenAPIOutcomes : Served(c, OpenAPISpecFunc(h, conn[c], o))

OpenAPISpecYAML(c) ==
    /\ AtHandler(c, "OpenAPISpecYAML")
    /\ Served(c, OpenAPISpecYAMLFunc(h, conn[c]))

Stub(c) == AtHandler(c, "Stub") /\ Served(c, StubFunc(h, conn[c]))

\* handler.ServeHTTP(rr, req) on a handler taken by itself: mws is what
\* wraps it, name the innermost handler.
Call(c, mws, name, q) ==
    /\ conn[c].pc = "idle"
    /\ Update(c, IF mws = <<>>
                 THEN [Idle EXCEPT !.pc = "handler", !.handler = name, !.req = q]
                 ELSE [Idle EXCEPT !.pc = "chain", !.chain = mws, !.idx = 1,
                                   !.handler = name, !.req = q])
    /\ UNCHANGED <<main, env, h, now, HTTPRequestsTotal, HTTPRequestDuration>>

AnyHandler(c) == AtHandler(c, "Any") /\ Served(c, AnyHandlerFunc(h, conn[c]))

\* mw(handler).ServeHTTP(rr, req) for a handler given as its writer calls.
Wrap(c, mws, ops, q) ==
    /\ conn[c].pc = "idle"
    /\ Update(c, IF mws = <<>>
                 THEN [Idle EXCEPT !.pc = "handler", !.handler = "Any", !.req = q,
                                   !.ops = ops]
                 ELSE [Idle EXCEPT !.pc = "chain", !.chain = mws, !.idx = 1,
                                   !.handler = "Any", !.req = q, !.ops = ops])
    /\ UNCHANGED <<main, env, h, now, HTTPRequestsTotal, HTTPRequestDuration>>

\* os.Setenv: the environment of the running process changes.
Setenv ==
    /\ \E e \in EnvConfigs : e # env /\ env' = e
    /\ UNCHANGED <<main, h, now, conn, HTTPRequestsTotal, HTTPRequestDuration>>

----------------------------------------------------------------------------
(* The concurrent server: both connections, every route, every middleware, *)
(* each kind of answer (200, 400, 404, 405, panic).                        *)

ConcurrentRequests ==
    {q \in [method : Methods, path : Paths, body : {<<>>, <<"x">>}, header : {EmptyMap}] :
        /\ q.body # <<>> => (q.path = "/echo" /\ q.method = "POST")
        /\ q.method = "OPTIONS" => q.path = "/ping"
        /\ q.method = "POST" => q.path = "/echo"}

Healthy ==
    [procErr |-> FALSE, memInfo |-> [nil |-> FALSE, rss |-> 50, vms |-> 70],
     virtualMem |-> [nil |-> FALSE, total |-> 200, available |-> 120, used |-> 80],
     cpuPercent |-> <<7>>, cpuCount |-> 4]

ConcurrentHealthzSamples ==
    {s \in HealthzSamples : ~s.procErr /\ ~s.memInfo.nil /\ s.virtualMem.total # 0}
        \cup {s \in HealthzSamples : ~s.procErr /\ ~s.memInfo.nil /\ s.virtualMem.nil}

ConcurrentInfoSamples == {Healthy, [Healthy EXCEPT !.cpuPercent = <<>>]}

\* One step of the request on connection c.
Step(c) ==
    \/ ServeHTTP(c)
    \/ LoggingMiddleware(c)
    \/ CORSMiddleware(c)
    \/ SecurityHeadersMiddleware(c)
    \/ MetricsMiddleware(c)
    \/ OtelHandler(c)
    \/ Index(c)
    \/ Ping(c)
    \/ Version(c)
    \/ Echo(c)
    \/ Metrics(c)
    \/ MetricsRecord(c)

Next ==
    \/ \E c \in Conns : \E q \in ConcurrentRequests : Accept(c, q)
    \/ \E c \in Conns : Step(c)
    \/ \E c \in Conns : Healthz(c, ConcurrentHealthzSamples)
    \/ \E c \in Conns : Info(c, ConcurrentInfoSamples)
    \/ Tick

Spec == Init /\ [][Next]_vars

----------------------------------------------------------------------------
(* One connection, every request and every result of the system calls.    *)

NextServer ==
    \/ \E q \in ServerRequests : Accept("c1", q)
    \/ Step("c1")
    \/ Healthz("c1", HealthzSamples)
    \/ Info("c1", InfoSamples)
    \/ Tick

SpecServer == Init /\ [][NextServer]_vars

----------------------------------------------------------------------------
(* /echo alone, for every body of at most MaxBody tokens.                  *)

EchoRequests ==
    [method : {"POST"}, path : {"/echo"}, body : Bodies, header : {EmptyMap}]

InitEcho == Init /\ env.GO_ENV = ""

NextEcho ==
    \/ \E q \in EchoRequests : Accept("c1", q)
    \/ ServeHTTP("c1")
    \/ LoggingMiddleware("c1")
    \/ CORSMiddleware("c1")
    \/ SecurityHeadersMiddleware("c1")
    \/ MetricsMiddleware("c1")
    \/ OtelHandler("c1")
    \/ Echo("c1")
    \/ MetricsRecord("c1")

SpecEcho == InitEcho /\ [][NextEcho]_vars

----------------------------------------------------------------------------
(* Every handler of the set called by itself, as the handler tests do, on  *)
(* any request.                                                            *)

HandlerSet ==
    {"Index", "Ping", "Healthz", "Info", "Version", "Echo", "MetricsHandler",
     "OpenAPISpec", "OpenAPISpecYAML"}

DirectRequests ==
    [method : Methods, path : {"/", "/echo"}, body : ServerBodies, header : ReqHeaders]

NextHandlers ==
    \/ \E name \in HandlerSet : \E q \in DirectRequests : Call("c1", <<>>, name, q)
    \/ Index("c1")
    \/ Ping("c1")
    \/ Healthz("c1", HealthzSamples)
    \/ Info("c1", InfoSamples)
    \/ Version("c1")
    \/ Echo("c1")
    \/ Metrics("c1")
    \/ OpenAPISpec("c1")
    \/ OpenAPISpecYAML("c1")
    \/ Tick

SpecHandlers == Init /\ [][NextHandlers]_vars

----------------------------------------------------------------------------
(* One middleware around the stub handler, as the middleware tests do.     *)

UnitMiddlewares == {"Logging", "CORS", "SecurityHeaders", "Metrics"}

UnitRequests ==
    [method : Methods, path : {"/", "/metrics"}, body : {<<>>}, header : ReqHeaders]

NextMiddleware ==
    \/ \E mw \in UnitMiddlewares : \E q \in UnitRequests : Call("c1", <<mw>>, "Stub", q)
    \/ LoggingMiddleware("c1")
    \/ CORSMiddleware("c1")
    \/ SecurityHeadersMiddleware("c1")
    \/ MetricsMiddleware("c1")
    \/ Stub("c1")
    \/ MetricsRecord("c1")
    \/ Tick

SpecMiddleware == Init /\ [][NextMiddleware]_vars

----------------------------------------------------------------------------
(* The server asked for each endpoint that Index lists.                    *)

ListedRequests ==
    {[method |-> Endpoints[i][2], path |-> Endpoints[i][1],
      body |-> IF Endpoints[i][1] = "/echo" THEN <<"1">> ELSE <<>>,
      header |-> EmptyMap] : i \in 1..Len(Endpoints)}

NextListed ==
    \/ \E q \in ListedRequests : Accept("c1", q)
    \/ Step("c1")
    \/ Healthz("c1", HealthzSamples)
    \/ Info("c1", InfoSamples)
    \/ Tick

SpecListed == Init /\ [][NextListed]_vars

----------------------------------------------------------------------------
(* The server while the environment of the process is changed under it.    *)

RoutedRequests ==
    {[method |-> Routes[i].method, path |-> Routes[i].path,
      body |-> IF Routes[i].path = "/echo" THEN <<"1">> ELSE <<>>,
      header |-> EmptyMap] : i \in 1..Len(Routes)}

NextEnv ==
    \/ \E c \in Conns : \E q \in RoutedRequests :
          q.path \in {"/version", "/ping", "/info"} /\ Accept(c, q)
    \/ \E c \in Conns : ServeHTTP(c)
    \/ \E c \in Conns : LoggingMiddleware(c)
    \/ \E c \in Conns : CORSMiddleware(c)
    \/ \E c \in Conns : SecurityHeadersMiddleware(c)
    \/ \E c \in Conns : MetricsMiddleware(c)
    \/ \E c \in Conns : OtelHandler(c)
    \/ \E c \in Conns : Ping(c)
    \/ \E c \in Conns : Version(c)
    \/ \E c \in Conns : Info(c, {Healthy})
    \/ \E c \in Conns : MetricsRecord(c)
    \/ Setenv

SpecEnv == Init /\ [][NextEnv]_vars

----------------------------------------------------------------------------
(* The process from the first statement of main to its exit, serving       *)
(* GET /ping while the listener is up.                                     *)

InitMain ==
    /\ env \in EnvConfigs
    /\ now = 1
    /\ main = MainEntry
    /\ h = NoHandlers
    /\ conn = [c \in Conns |-> Idle]
    /\ HTTPRequestsTotal = EmptyBag
    /\ HTTPRequestDuration = EmptyBag

MainStep(m) ==
    /\ main' = m
    /\ UNCHANGED <<env, h, now, conn, HTTPRequestsTotal, HTTPRequestDuration>>

MainInitTracer ==
    /\ main.pc = "InitTracer"
    /\ \E fails \in BOOLEAN : MainStep(InitTracerFunc(main, env, fails))

MainNewServer ==
    /\ main.pc = "NewServer"
    /\ main' = MainNewServerFunc(main, env, now)
    /\ h' = main'.server.router.h
    /\ UNCHANGED <<env, now, conn, HTTPRequestsTotal, HTTPRequestDuration>>

Start == main.pc = "Start" /\ MainStep(StartFunc(main))

ListenAndServe ==
    /\ main.pc = "ListenAndServe"
    /\ \E e \in ListenErrors \cup {""} : MainStep(ListenAndServeFunc(main, e))

ServeReturns ==
    /\ main.pc = "serving"
    /\ \E e \in AcceptErrors : MainStep(ServeReturnsFunc(main, e))

StartLog == main.pc = "StartLog" /\ MainStep(StartLogFunc(main))

StartReturn == main.pc = "StartReturn" /\ MainStep(StartReturnFunc(main))

MainExit == main.pc = "MainExit" /\ MainStep(MainExitFunc(main))

\* The goroutines of the server run as long as the process does.
Running == main.exit = -1

MainRequests == {q \in RoutedRequests : q.path = "/ping"}

NextMain ==
    \/ MainInitTracer
    \/ MainNewServer
    \/ Start
    \/ ListenAndServe
    \/ ServeReturns
    \/ StartLog
    \/ StartReturn
    \/ MainExit
    \/ Running /\ \E q \in MainRequests : Accept("c1", q)
    \/ Running /\ ServeHTTP("c1")
    \/ Running /\ LoggingMiddleware("c1")
    \/ Running /\ CORSMiddleware("c1")
    \/ Running /\ SecurityHeadersMiddleware("c1")
    \/ Running /\ MetricsMiddleware("c1")
    \/ Running /\ OtelHandler("c1")
    \/ Running /\ Ping("c1")
    \/ Running /\ MetricsRecord("c1")
    \/ Tick

SpecMain == InitMain /\ [][NextMain]_vars

----------------------------------------------------------------------------
(* Echo called by itself on requests with every shape of header: a name    *)
(* with no value, with one value, with two.                                *)

HeaderNames == {"User-Agent", "X-Trace"}

HeaderValues == {<<>>, <<"a">>, <<"a", "b">>}

HeaderMaps == UNION {[N -> HeaderValues] : N \in SUBSET HeaderNames}

EchoHeaderRequests ==
    [method : {"POST"}, path : {"/echo"}, body : {<<"1">>, <<"x">>}, header : HeaderMaps]

NextEchoHeaders ==
    \/ \E q \in EchoHeaderRequests : Call("c1", <<>>, "Echo", q)
    \/ Echo("c1")
    \/ Tick

SpecEchoHeaders == Init /\ [][NextEchoHeaders]_vars

----------------------------------------------------------------------------
(* Two requests in flight, each on its own goroutine: a goroutine that can *)
(* take a step is scheduled sooner or later, whatever the other one does.  *)

FairRequests == {q \in RoutedRequests : q.path \in {"/ping", "/healthz"}}

\* The steps of the goroutine serving connection c.
Goroutine(c) ==
    \/ ServeHTTP(c)
    \/ LoggingMiddleware(c)
    \/ CORSMiddleware(c)
    \/ SecurityHeadersMiddleware(c)
    \/ MetricsMiddleware(c)
    \/ OtelHandler(c)
    \/ Ping(c)
    \/ Healthz(c, ConcurrentHealthzSamples)
    \/ MetricsRecord(c)

NextFair ==
    \/ \E c \in Conns : \E q \in FairRequests : Accept(c, q)
    \/ \E c \in Conns : Goroutine(c)

SpecFair == Init /\ [][NextFair]_vars /\ \A c \in Conns : WF_vars(Goroutine(c))

----------------------------------------------------------------------------
(* A handler behind MetricsMiddleware on c1 and the same handler by itself *)
(* on c2.                                                                  *)

WrapperRequests ==
    [method : Methods, path : {"/", "/metrics"}, body : {<<>>}, header : {EmptyMap}]

NextWrapper ==
    \/ \E p \in HandlerPrograms : \E q \in WrapperRequests : Wrap("c1", <<"Metrics">>, p, q)
    \/ \E p \in HandlerPrograms : \E q \in WrapperRequests : Wrap("c2", <<>>, p, q)
    \/ MetricsMiddleware("c1")
    \/ \E c \in Conns : AnyHandler(c)
    \/ MetricsRecord("c1")

SpecWrapper == Init /\ [][NextWrapper]_vars

----------------------------------------------------------------------------
(* Properties *)

\* The handler name ran on r: it is the last entry of the trace.
Ran(r, name) == r.trace # <<>> /\ r.trace[Len(r.trace)] = name

\* The response went out with status code and one JSON body of the kind.
Answered(r, code, kind) ==
    /\ r.w.status = code
    /\ Len(r.w.body) = 1
    /\ r.w.body[1].kind = kind

RegisteredPaths == {"/", "/ping", "/healthz", "/info", "/version", "/echo"}

HandlerNames == {Routes[i].handler : i \in 1..Len(Routes)}

IsPrefix(s, t) == Len(s) <= Len(t) /\ \A i \in 1..Len(s) : s[i] = t[i]

\* C1: an OPTIONS request to a registered path is answered 200 with
\* Access-Control-Allow-Origin equal to CORS_ORIGIN ("*" when unset), and
\* the path's handler does not run.
C1_PreflightAnswered ==
    \A c \in Conns :
        (/\ conn[c].pc = "done"
         /\ conn[c].req.method = "OPTIONS"
         /\ conn[c].req.path \in RegisteredPaths)
        => /\ conn[c].w.status = 200
           /\ MapGet(conn[c].w.sent, "Access-Control-Allow-Origin")
                = (IF env.CORS_ORIGIN = "" THEN "*" ELSE env.CORS_ORIGIN)
           /\ \A i \in 1..Len(conn[c].trace) : conn[c].trace[i] \notin HandlerNames

\* C2: every response sent, whatever the method, path and status, carries
\* X-Frame-Options: DENY, X-Content-Type-Options: nosniff and the other
\* three security headers.
C2_SecurityHeadersOnEveryResponse ==
    \A c \in Conns :
        conn[c].w.status # 0
        => \A i \in 1..Len(SecurityHeaders) :
               MapGet(conn[c].w.sent, SecurityHeaders[i][1]) = SecurityHeaders[i][2]

\* C3: a request the router dispatches passes Logging, CORS,
\* SecurityHeaders, Metrics and then its handler, in this order; when CORS
\* runs, Logging has run, and has written its entry unless GO_ENV is "test".
C3_MiddlewareOrder ==
    \A c \in Conns :
        LET r == conn[c]
            named == SelectSeq(r.trace, LAMBDA x : x # "Otel")
        IN  /\ IsPrefix(named, <<"Logging", "CORS", "SecurityHeaders", "Metrics", r.handler>>)
            /\ (\E i \in 1..Len(r.trace) : r.trace[i] = "CORS")
               => /\ r.trace[1] = "Logging"
                  /\ (env.GO_ENV # "test" => Len(r.log) = 1)

C3_Witness ==
    \E c \in Conns :
        /\ conn[c].pc = "done"
        /\ conn[c].trace = <<"Logging", "CORS", "SecurityHeaders", "Metrics", "Otel", "Ping">>
        /\ Len(conn[c].log) = 1

\* C4: a body that is not one valid JSON document (empty, arbitrary text,
\* a JSON value followed by other text) is answered 400 with the
\* ErrorResponse "Invalid JSON", never 200.
C4_InvalidJSONRejected ==
    \A c \in Conns :
        (Ended(conn[c]) /\ Ran(conn[c], "Echo") /\ ~ValidJSON(conn[c].req.body))
        => /\ Answered(conn[c], 400, "ErrorResponse")
           /\ conn[c].w.body[1].error
           /\ conn[c].w.body[1].message = "Invalid JSON"
           /\ conn[c].w.body[1].statusCode = 400

\* C5: a body B the decoder accepts, posted to /echo, is answered 200 with
\* success = true, data.echo a JSON document whose value is the value of
\* B, and data.method = "POST".
C5_EchoRoundTrip ==
    \A c \in Conns :
        (conn[c].pc \in {"record", "done", "panicked"} /\ Ran(conn[c], "Echo")
            /\ ~Decode(conn[c].req.body).err)
        => /\ Answered(conn[c], 200, "Response")
           /\ conn[c].w.body[1].success
           /\ ValidJSON(conn[c].w.body[1].data.echo)
           /\ Decode(conn[c].w.body[1].data.echo) = Decode(conn[c].req.body)
           /\ conn[c].w.body[1].data.method = "POST"

\* A nested array written with "1.0" has come back as "1".
C5_Witness ==
    \E c \in Conns :
        /\ conn[c].pc = "done"
        /\ conn[c].req.body = <<"[", "1.0", "]">>
        /\ Answered(conn[c], 200, "Response")
        /\ conn[c].w.body[1].data.echo = <<"[", "1", "]">>

\* The memory block of a Healthz or Info answer.
MemoryOf(r) ==
    IF r.handler = "Healthz" THEN r.w.body[1].data.memory
    ELSE r.w.body[1].data.system.memory

\* C6: when the total memory is not known (the lookup failed or gave 0)
\* Healthz and Info answer with percent = 0 and do not fault; otherwise
\* percent = rss * 100 / total.
C6_PercentDefaultsToZero ==
    \A c \in Conns :
        LET r == conn[c] IN
        (/\ Ended(r)
         /\ Ran(r, "Healthz") \/ (Ran(r, "Info") /\ r.sample.cpuPercent # <<>>)
         /\ ~r.sample.memInfo.nil)
        => /\ Answered(r, 200, "Response")
           /\ MemoryOf(r).percent =
                IF r.sample.virtualMem.nil \/ r.sample.virtualMem.total = 0 THEN 0
                ELSE (r.sample.memInfo.rss * 100) \div r.sample.virtualMem.total

\* C7: whichever of the system calls fail, Healthz and Info answer 200
\* with a success envelope.
C7_IntrospectionFailuresTolerated ==
    \A c \in Conns :
        (Ended(conn[c]) /\ (Ran(conn[c], "Healthz") \/ Ran(conn[c], "Info")))
        => /\ Answered(conn[c], 200, "Response")
           /\ conn[c].w.body[1].success

\* C8: an ErrorResponse is written only by Echo, only when decoding the
\* body failed, and always with HTTP status 400 and statusCode 400.
C8_ErrorResponseOnlyFromEcho ==
    \A c \in Conns :
        \A i \in 1..Len(conn[c].w.body) :
            conn[c].w.body[i].kind = "ErrorResponse"
            => /\ Ran(conn[c], "Echo")
               /\ Decode(conn[c].req.body).err
               /\ conn[c].w.status = 400
               /\ conn[c].w.body[i].error
               /\ conn[c].w.body[i].statusCode = 400

C8_Witness ==
    \E c \in Conns :
        /\ conn[c].pc = "done"
        /\ conn[c].req.body = <<"x">>
        /\ Answered(conn[c], 400, "ErrorResponse")

\* C9: every /healthz request, however the requests interleave, is answered
\* 200 with data.status = "healthy", and a call that starts after another
\* has completed reports an uptime that is not smaller.
C9_HealthzAlwaysHealthy ==
    \A c \in Conns :
        (Ended(conn[c]) /\ Ran(conn[c], "Healthz"))
        => /\ Answered(conn[c], 200, "Response")
           /\ conn[c].w.body[1].data.status = "healthy"
           /\ \A d \in conn[c].after :
                 Ran(conn[d], "Healthz")
                 => conn[c].w.body[1].data.uptime >= conn[d].w.body[1].data.uptime

\* C10: no step of any request changes the Handlers value (AppInfo and
\* startTime) that NewHandlers built.
C10_HandlersNeverWritten == [][h' = h]_vars

\* Two interleaved requests have completed after the clock moved on.
C10_Witness ==
    /\ conn["c1"].pc = "done" /\ Ran(conn["c1"], "Info")
    /\ conn["c2"].pc = "done" /\ Ran(conn["c2"], "Version")
    /\ "c1" \notin conn["c2"].after /\ "c2" \notin conn["c1"].after
    /\ now > h.startTime

\* C11: every JSON success body (status 200, Content-Type application/json)
\* written by a handler of the set other than Ping is the envelope: success
\* true, data not null, timestamp an RFC3339 UTC time.
C11_JSONSuccessEnveloped ==
    \A c \in Conns :
        (/\ conn[c].pc = "done"
         /\ ~Ran(conn[c], "Ping")
         /\ conn[c].w.status = 200
         /\ MapGet(conn[c].w.sent, "Content-Type") = "application/json")
        => /\ Len(conn[c].w.body) = 1
           /\ conn[c].w.body[1].kind = "Response"
           /\ conn[c].w.body[1].success
           /\ conn[c].w.body[1].data # JNull
           /\ \E t \in 1..MaxTime : conn[c].w.body[1].timestamp = RFC3339(t)

\* C12: whatever the method, the headers and the body of the request, Ping
\* answers 200 with the body "pong" and nothing else, as text/plain.
C12_PingPong ==
    \A c \in Conns :
        (Ended(conn[c]) /\ Ran(conn[c], "Ping"))
        => /\ conn[c].pc = "done"
           /\ conn[c].w.status = 200
           /\ conn[c].w.body = <<[kind |-> "text", text |-> "pong"]>>
           /\ MapGet(conn[c].w.sent, "Content-Type") = "text/plain"

\* Ping has answered a POST that carries a body and a User-Agent.
C12_Witness ==
    \E c \in Conns :
        /\ conn[c].pc = "done" /\ Ran(conn[c], "Ping")
        /\ conn[c].req.method = "POST"
        /\ conn[c].req.body = <<"null", "x">>
        /\ "User-Agent" \in DOMAIN conn[c].req.header
        /\ conn[c].w.body = <<[kind |-> "text", text |-> "pong"]>>

\* C13: /version reports the name "learn-go" and the APP_VERSION and GO_ENV
\* that were in the environment when NewHandlers ran ("0.0.1" and
\* "development" when empty), whatever the environment has become since.
C13_VersionFromStartup ==
    \A c \in Conns :
        (Ended(conn[c]) /\ Ran(conn[c], "Version"))
        => /\ Answered(conn[c], 200, "Response")
           /\ conn[c].w.body[1].data.name = "learn-go"
           /\ conn[c].w.body[1].data.version
                = (IF main.envAtBuild.APP_VERSION = "" THEN "0.0.1"
                   ELSE main.envAtBuild.APP_VERSION)
           /\ conn[c].w.body[1].data.environment
                = (IF main.envAtBuild.GO_ENV = "" THEN "development"
                   ELSE main.envAtBuild.GO_ENV)

\* /version has answered with the startup version 1.2.3 a request that
\* arrived after the environment had lost APP_VERSION and CORS_ORIGIN.
C13_Witness ==
    \E c \in Conns :
        /\ conn[c].pc = "done" /\ Ran(conn[c], "Version")
        /\ main.envAtBuild.APP_VERSION = "1.2.3"
        /\ MapGet(conn[c].w.sent, "Access-Control-Allow-Origin") = "*"
        /\ env.APP_VERSION = ""
        /\ conn[c].w.body[1].data.version = "1.2.3"

\* The six pairs the router declares for the application's handlers.
DeclaredPairs ==
    { [method |-> "GET",  path |-> "/",        handler |-> "Index"],
      [method |-> "GET",  path |-> "/ping",    handler |-> "Ping"],
      [method |-> "GET",  path |-> "/healthz", handler |-> "Healthz"],
      [method |-> "GET",  path |-> "/info",    handler |-> "Info"],
      [method |-> "GET",  path |-> "/version", handler |-> "Version"],
      [method |-> "POST", path |-> "/echo",    handler |-> "Echo"] }

Reached(r, name) == \E i \in 1..Len(r.trace) : r.trace[i] = name

\* C14: a request for one of the six declared (method, path) pairs reaches
\* the handler of that name, and one of the six handlers is reached only by
\* a request for its own pair: not with another method, not on another path.
C14_RouterDispatch ==
    \A c \in Conns : \A d \in DeclaredPairs :
        /\ (Ended(conn[c]) /\ conn[c].req.method = d.method /\ conn[c].req.path = d.path)
           => Reached(conn[c], d.handler)
        /\ Reached(conn[c], d.handler)
           => (conn[c].req.method = d.method /\ conn[c].req.path = d.path)

\* POST /echo has been served by Echo.
C14_Witness ==
    \E c \in Conns :
        /\ conn[c].pc = "done"
        /\ conn[c].req.method = "POST" /\ conn[c].req.path = "/echo"
        /\ Ran(conn[c], "Echo")
        /\ conn[c].w.status = 200

\* C15: a request for a (path, method) pair that Index lists, /openapi.json,
\* /openapi.yaml and /metrics included, is dispatched to a handler and not
\* answered 404 or 405 by the router.
C15_ListedEndpointsRouted ==
    \A c \in Conns :
        (/\ Ended(conn[c])
         /\ \E i \in 1..Len(Endpoints) :
                Endpoints[i] = <<conn[c].req.path, conn[c].req.method>>)
        => /\ conn[c].handler # ""
           /\ Reached(conn[c], conn[c].handler)
           /\ conn[c].w.status \notin {404, 405}

AllowHeaders ==
    {"Access-Control-Allow-Origin", "Access-Control-Allow-Methods",
     "Access-Control-Allow-Headers"}

\* C16: CORSMiddleware around a handler: an OPTIONS request gets the three
\* Access-Control-Allow-* headers and status 200 and the handler is not
\* called; a request of any other method gets the three headers and the
\* handler is called once.
C16_CORSShortCircuit ==
    \A c \in Conns :
        (conn[c].pc = "done" /\ conn[c].chain = <<"CORS">>)
        => /\ AllowHeaders \subseteq DOMAIN conn[c].w.sent
           /\ conn[c].w.sent["Access-Control-Allow-Methods"]
                = "GET, POST, PUT, DELETE, OPTIONS"
           /\ conn[c].w.sent["Access-Control-Allow-Headers"]
                = "Content-Type, Authorization"
           /\ conn[c].w.status = 200
           /\ conn[c].trace = (IF conn[c].req.method = "OPTIONS"
                               THEN <<"CORS">> ELSE <<"CORS", "Stub">>)

\* CORSMiddleware has answered an OPTIONS request by itself.
C16_Witness ==
    \E c \in Conns :
        /\ conn[c].pc = "done" /\ conn[c].chain = <<"CORS">>
        /\ conn[c].req.method = "OPTIONS"
        /\ conn[c].w.status = 200
        /\ conn[c].trace = <<"CORS">>

\* The origin CORSMiddleware allows under the environment e.
AllowedOrigin(e) == IF e.CORS_ORIGIN = "" THEN "*" ELSE e.CORS_ORIGIN

PassedCORS(r) == Reached(r, "CORS") /\ r.w.status # 0

\* C17: every response that passed CORSMiddleware carries as
\* Access-Control-Allow-Origin the CORS_ORIGIN the process was configured
\* with ("*" when unset or empty), the same for all requests of the run.
C17_AllowOriginFixed ==
    \A c \in Conns :
        PassedCORS(conn[c])
        => /\ MapGet(conn[c].w.sent, "Access-Control-Allow-Origin")
                = AllowedOrigin(main.envAtBuild)
           /\ \A d \in Conns :
                 PassedCORS(conn[d])
                 => MapGet(conn[d].w.sent, "Access-Control-Allow-Origin")
                      = MapGet(conn[c].w.sent, "Access-Control-Allow-Origin")

WasCalled(name) == \E i \in 1..Len(main.calls) : main.calls[i] = name

Logged(msg, arg) ==
    \E i \in 1..Len(main.log) : main.log[i].msg = msg /\ main.log[i].arg = arg

\* C18: Start has not returned while the listener is up; once it has
\* returned the listener is down, the value returned is the error that ended
\* ListenAndServe, never nil, and that error is in the log.
C18_StartReturnsTerminalError ==
    /\ main.listening => (~main.returned /\ main.pc = "serving")
    /\ main.returned
       => /\ ~main.listening
          /\ WasCalled("ListenAndServe")
          /\ main.result \in ListenErrors \cup AcceptErrors
          /\ main.result = main.err
          /\ Logged("HTTP server error", main.result)

\* Start has returned the error of a listener that had served a request.
C18_Witness ==
    /\ main.returned
    /\ main.result \in AcceptErrors
    /\ conn["c1"].pc = "done"

\* C19: when InitTracer or NewServer fails, main exits with a non-zero
\* status without calling Start and without calling anything twice; when
\* Start returns an error, the error is logged and main exits with a
\* non-zero status.
C19_MainExitsOnFailure ==
    /\ \A i, j \in 1..Len(main.calls) : main.calls[i] = main.calls[j] => i = j
    /\ (main.tracer = "error" \/ (WasCalled("NewServer") /\ main.server.err))
       => /\ ~WasCalled("Start")
          /\ main.pc = "exited"
          /\ main.exit > 0
    /\ (main.returned /\ main.result # "")
       => /\ Logged("HTTP server error", main.result)
          /\ main.pc \in {"MainExit", "exited"}
          /\ main.pc = "exited"
             => (main.exit > 0 /\ Logged("Server failed to start", main.result))

\* main has exited with status 1 on a failed InitTracer, Start not called.
C19_Witness ==
    /\ main.tracer = "error"
    /\ main.calls = <<"InitTracer">>
    /\ main.pc = "exited"
    /\ main.exit = 1

\* C20: NewRouter fails exactly when NewHandlers does and NewServer exactly
\* when NewRouter does; when NewHandlers succeeds the router is not nil and
\* carries the five middleware and the seven routes, under every
\* environment.
C20_ConstructorErrors ==
    WasCalled("NewServer")
    => /\ main.server.router.err <=> NewHandlersErr(main.envAtBuild, h.startTime)
       /\ main.server.err <=> main.server.router.err
       /\ ~NewHandlersErr(main.envAtBuild, h.startTime)
          => /\ ~main.server.router.nil
             /\ main.server.router.mux.middlewares
                  = <<"Logging", "CORS", "SecurityHeaders", "Metrics", "Otel">>
             /\ {<<main.server.router.mux.routes[i].method,
                   main.server.router.mux.routes[i].path>> :
                     i \in 1..Len(main.server.router.mux.routes)}
                  = {<<"GET", "/">>, <<"GET", "/ping">>, <<"GET", "/healthz">>,
                     <<"GET", "/info">>, <<"GET", "/version">>, <<"POST", "/echo">>,
                     <<"GET", "/metrics">>}
             /\ h = main.server.router.h

\* NewServer has returned a server under the environment with nothing set.
C20_Witness ==
    /\ WasCalled("NewServer")
    /\ main.envAtBuild.APP_VERSION = "" /\ main.envAtBuild.GO_ENV = ""
    /\ ~main.server.err /\ ~main.server.nil
    /\ Len(main.server.router.mux.routes) = Len(Routes)

\* C21: the response Index, Healthz, Info, Version and Echo send (Echo's
\* 400 included) goes out with Content-Type application/json and the one
\* Ping sends with text/plain: the header is set before the status line.
C21_ContentTypeSent ==
    \A c \in Conns :
        (conn[c].pc = "done" /\ conn[c].w.status # 0)
        => /\ (\E n \in {"Index", "Healthz", "Info", "Version", "Echo"} : Ran(conn[c], n))
              => /\ MapGet(conn[c].w.sent, "Content-Type") = "application/json"
                 /\ Len(conn[c].w.body) = 1
                 /\ conn[c].w.body[1].kind \in {"Response", "ErrorResponse"}
           /\ Ran(conn[c], "Ping")
              => MapGet(conn[c].w.sent, "Content-Type") = "text/plain"

\* Echo has sent its 400 as application/json.
C21_Witness ==
    \E c \in Conns :
        /\ conn[c].pc = "done" /\ Ran(conn[c], "Echo")
        /\ conn[c].w.status = 400
        /\ conn[c].w.body[1].kind = "ErrorResponse"
        /\ MapGet(conn[c].w.sent, "Content-Type") = "application/json"

\* C22: LoggingMiddleware around a handler writes one entry (timestamp,
\* method, path, User-Agent or "Unknown") when GO_ENV is not "test" and none
\* when it is; either way the handler is called once and the response is
\* the handler's own.
C22_LoggingToggle ==
    \A c \in Conns :
        (conn[c].pc = "done" /\ conn[c].chain = <<"Logging">>)
        => /\ conn[c].trace = <<"Logging", "Stub">>
           /\ conn[c].w = WriteHeader(NewWriter, 200)
           /\ env.GO_ENV = "test" => conn[c].log = <<>>
           /\ env.GO_ENV # "test"
              => /\ Len(conn[c].log) = 1
                 /\ conn[c].log[1].method = conn[c].req.method
                 /\ conn[c].log[1].path = conn[c].req.path
                 /\ conn[c].log[1].userAgent
                      = (IF "User-Agent" \in DOMAIN conn[c].req.header
                         THEN conn[c].req.header["User-Agent"][1] ELSE "Unknown")
                 /\ \E t \in 1..MaxTime : conn[c].log[1].timestamp = RFC3339(t)

\* Under GO_ENV=test the handler has answered and nothing was logged.
C22_Witness ==
    \E c \in Conns :
        /\ conn[c].pc = "done" /\ conn[c].chain = <<"Logging">>
        /\ env.GO_ENV = "test"
        /\ conn[c].log = <<>>
        /\ conn[c].w.status = 200

\* C23: with logging on (GO_ENV not "test"), every request the server has
\* answered, an OPTIONS preflight or a request that matches no route
\* included, has left exactly one access-log entry with its method and path.
C23_EveryRequestLogged ==
    \A c \in Conns :
        (Ended(conn[c]) /\ env.GO_ENV # "test")
        => /\ Len(conn[c].log) = 1
           /\ conn[c].log[1].method = conn[c].req.method
           /\ conn[c].log[1].path = conn[c].req.path

\* The request on c went through MetricsMiddleware's measuring branch and
\* the middleware has returned.
Measured(c) ==
    /\ conn[c].pc = "done"
    /\ Reached(conn[c], "Metrics")
    /\ conn[c].req.path # "/metrics"

\* C24 as claimed: once the handler has returned, the request has one count
\* and one latency observation, both under (method, route template,
\* status), status being the code the handler wrote, 200 by default.
C24_MetricsKeyedByStatus ==
    \A c \in Conns :
        Measured(c)
        => /\ HTTPRequestsTotal
                = SetToBag({<<conn[c].req.method, conn[c].route, conn[c].w.status>>})
           /\ HTTPRequestDuration
                = SetToBag({<<conn[c].req.method, conn[c].route, conn[c].w.status>>})

\* C24 as the code has it: one count under (method, route template,
\* status) and one latency observation under (method, route template);
\* nothing is recorded before the handler has returned.
C24_MetricsRecordedOnce ==
    \A c \in Conns :
        /\ Measured(c)
           => /\ HTTPRequestsTotal
                   = SetToBag({<<conn[c].req.method, conn[c].route, conn[c].w.status>>})
              /\ HTTPRequestDuration
                   = SetToBag({<<conn[c].req.method, conn[c].route>>})
        /\ (c = "c1" /\ conn[c].pc # "done")
           => (HTTPRequestsTotal = EmptyBag /\ HTTPRequestDuration = EmptyBag)

\* Echo's 400 has been counted under (POST, /echo, 400).
C24_Witness ==
    /\ Measured("c1")
    /\ Ran(conn["c1"], "Echo")
    /\ conn["c1"].w.status = 400
    /\ HTTPRequestsTotal = SetToBag({<<"POST", "/echo", 400>>})
    /\ HTTPRequestDuration = SetToBag({<<"POST", "/echo">>})

\* What the measured requests that have returned add up to.
CountsOf(S) ==
    LET add[T \in SUBSET S] ==
            IF T = {} THEN EmptyBag
            ELSE LET c == CHOOSE x \in T : TRUE
                 IN  add[T \ {c}] (+) SetToBag({TotalLabels(conn[c])})
    IN  add[S]

\* C25: the counters and histograms hold what the requests other than
\* /metrics put there and nothing under the endpoint /metrics, while each
\* GET /metrics is served by the metrics handler, once.
C25_ScrapeNotMeasured ==
    /\ HTTPRequestsTotal = CountsOf({c \in Conns : Measured(c)})
    /\ BagCardinality(HTTPRequestDuration) = Cardinality({c \in Conns : Measured(c)})
    /\ \A k \in BagToSet(HTTPRequestsTotal) : k[2] # "/metrics"
    /\ \A k \in BagToSet(HTTPRequestDuration) : k[2] # "/metrics"
    /\ \A c \in Conns :
          (conn[c].pc = "done" /\ conn[c].req.path = "/metrics"
             /\ conn[c].req.method = "GET")
          => /\ Len(SelectSeq(conn[c].trace, LAMBDA x : x = "MetricsHandler")) = 1
             /\ conn[c].w.status = 200

\* A scrape has been served after a measured request, and reports it; the
\* counters hold that one request.
C25_Witness ==
    /\ conn["c1"].pc = "done" /\ Ran(conn["c1"], "MetricsHandler")
    /\ Measured("c2")
    /\ "c2" \in conn["c1"].after
    /\ BagCardinality(HTTPRequestsTotal) = 1
    /\ conn["c1"].w.body[1].total = HTTPRequestsTotal

\* C26: two equal requests served by the same handler get bodies that are
\* equal but for timestamps and system measurements, whatever the
\* environment was when each of them was served.
C26_NoRequestTimeEnv ==
    \A c, d \in Conns :
        (/\ conn[c].pc = "done" /\ conn[d].pc = "done"
         /\ conn[c].req = conn[d].req
         /\ conn[c].handler = conn[d].handler
         /\ Ran(conn[c], conn[c].handler) /\ Ran(conn[d], conn[d].handler))
        => /\ Ran(conn[c], "Ping") => conn[c].w.body = conn[d].w.body
           /\ Ran(conn[c], "Version")
              => conn[c].w.body[1].data = conn[d].w.body[1].data
           /\ Ran(conn[c], "Info")
              => /\ conn[c].w.body[1].data.application = conn[d].w.body[1].data.application
                 /\ conn[c].w.body[1].data.environment = conn[d].w.body[1].data.environment

\* C27: on Echo's success path data.headers has an entry for exactly the
\* header names of the request that have a value, each with the first value
\* of its header.
C27_EchoFirstHeaderValues ==
    \A c \in Conns :
        (conn[c].pc = "done" /\ Ran(conn[c], "Echo") /\ conn[c].w.status = 200)
        => /\ DOMAIN conn[c].w.body[1].data.headers
                = {k \in DOMAIN conn[c].req.header : Len(conn[c].req.header[k]) >= 1}
           /\ \A k \in DOMAIN conn[c].w.body[1].data.headers :
                 conn[c].w.body[1].data.headers[k] = Head(conn[c].req.header[k])

\* Echo has answered a request with a two-valued and a valueless header.
C27_Witness ==
    \E c \in Conns :
        /\ conn[c].pc = "done" /\ Ran(conn[c], "Echo") /\ conn[c].w.status = 200
        /\ DOMAIN conn[c].req.header = {"User-Agent", "X-Trace"}
        /\ conn[c].req.header["User-Agent"] = <<"a", "b">>
        /\ conn[c].req.header["X-Trace"] = <<>>
        /\ DOMAIN conn[c].w.body[1].data.headers = {"User-Agent"}
        /\ conn[c].w.body[1].data.headers["User-Agent"] = "a"

\* C28: every request that has reached its handler is answered in the end
\* (its response complete, the status line sent), whatever the request on
\* the other connection does.
C28_EveryRequestAnswered ==
    \A c \in Conns :
        (conn[c].pc = "handler") ~> (conn[c].pc = "done" /\ conn[c].w.status # 0)

\* C29: what a handler sends through MetricsMiddleware's responseWriter
\* (status, headers, body) is what it sends on the writer itself, and the
\* status counted for the request is the status sent.
C29_MetricsTransparent ==
    /\ (/\ conn["c1"].pc = "done" /\ conn["c2"].pc = "done"
        /\ conn["c1"].req = conn["c2"].req
        /\ conn["c1"].ops = conn["c2"].ops)
       => conn["c1"].w = conn["c2"].w
    /\ (conn["c1"].pc = "done" /\ conn["c1"].wrapped)
       => /\ BagToSet(HTTPRequestsTotal) = {TotalLabels(conn["c1"])}
          /\ TotalLabels(conn["c1"])[3] = conn["c1"].w.status

\* C30: when the process has exited after a successful InitTracer, the
\* shutdown function InitTracer returned has been called, whichever way
\* main left.
C30_TracerShutDown ==
    (main.pc = "exited" /\ main.tracer \in {"noop", "otlp"}) => main.shutdown

====
